---- MODULE Spec2Model ----
(***************************************************************************)
(* Campaign dispatch scheduler and resilience execution core of the        *)
(* outbound-call backend (packages/backend).                               *)
(*                                                                         *)
(* Part I  models the resilience pipeline: CircuitBreakerService,          *)
(*         RetryService, FallbackService, ErrorTrackingService and         *)
(*         BaseService.executeWithResilience.                              *)
(* Part II models SchedulerService together with CallService,              *)
(*         ContactService and the Twilio status webhook.                   *)
(***************************************************************************)
EXTENDS Integers, Sequences, FiniteSets, TLC

(***************************************************************************)
(* Bounds of the model                                                     *)
(***************************************************************************)
NumProcs == 2          \* concurrent callers of the resilience pipeline
MaxTime == 4           \* the clock runs 0..MaxTime
MaxRetries == 3        \* retryOptions.maxRetries is drawn from 0..MaxRetries
\* scaled-down configuration of the breaker (defaults are 5 and 30000 ms)
defaultFailureThreshold == 2
defaultResetTimeout == 1
NumContacts == 2       \* contacts of the campaign
MaxSlots == 2          \* campaign.maxConcurrentCalls is drawn from 0..MaxSlots
MaxCalls == 3          \* call records the model creates

(***************************************************************************)
(* Program constants                                                       *)
(***************************************************************************)
defaultHalfOpenSuccessThreshold == 2
defaultRetryDelay == 1000
defaultCallRetryAttempts == 3

Procs == 1..NumProcs
Keys == {"twilio", "openai"}
TwilioKey == {"twilio"}
ObjIds == 1..(Cardinality(Keys) + NumProcs)
NoDate == -1           \* lastFailure: null
Undefined == "undefined"
Errors == {"transient", "permanent"}

VARIABLES
  now,              \* Date.now(), in units of the reset timeout scale
  circuitBreakers,  \* Map<string, CircuitBreakerStatus>: key -> object id, 0 = no entry
  heap,             \* the CircuitBreakerStatus objects, by object id
  consec,           \* per breaker object: failures since the last success (history)
  proc,             \* the callers: position in the pipeline and locals
  campaign,         \* the campaign document
  contacts,         \* the contact documents of the campaign
  calls,            \* the call documents, in creation order
  clock,            \* the scheduler's dates, a logical clock
  tick              \* the runs of processActiveCampaigns: position and locals

resVars == <<now, circuitBreakers, heap, consec, proc>>
schedVars == <<campaign, contacts, calls, clock, tick>>
vars == <<now, circuitBreakers, heap, consec, proc, campaign, contacts, calls, clock, tick>>

(***************************************************************************)
(* PART I - resilience                                                     *)
(***************************************************************************)

\* the object literal of circuit-breaker.service.ts:55-60 and 141-146
NewBreaker ==
  [state |-> "closed", failures |-> 0, lastFailure |-> NoDate, successesInHalfOpen |-> 0]

\* an object id nobody references holds no object
Free == [state |-> "free", failures |-> 0, lastFailure |-> NoDate, successesInHalfOpen |-> 0]

\* DI wiring of the optional constructor parameters of BaseService
retryService == TRUE
circuitBreakerService == TRUE
fallbackService == TRUE
errorTrackingService == TRUE

\* options of one executeWithResilience call
AllOpts ==
  [useCircuitBreaker : BOOLEAN, useRetry : BOOLEAN, fallbackValue : {Undefined, "fallback"},
   maxRetries : 0..MaxRetries, exponentialBackOff : BOOLEAN, retryAll : BOOLEAN,
   trackError : BOOLEAN]

\* the options TwilioService.makeCall runs with: breaker around retry, no fallback
ConcOpts ==
  {o \in AllOpts : o.useCircuitBreaker /\ o.useRetry /\ o.fallbackValue = Undefined
                   /\ o.exponentialBackOff /\ ~o.retryAll /\ ~o.trackError
                   /\ o.maxRetries = 1}

\* the options of the sequential breaker runs: with and without each layer
SeqOpts ==
  {o \in AllOpts : o.exponentialBackOff /\ ~o.retryAll /\ ~o.trackError /\ o.maxRetries <= 1}

IdleProc ==
  [pc |-> "idle", key |-> "twilio", opts |-> CHOOSE o \in AllOpts : TRUE, cb |-> 0,
   attempt |-> 0, error |-> "none", invocations |-> 0, waits |-> <<>>, tracked |-> 0,
   result |-> "none"]

(* ---- CircuitBreakerService ------------------------------------------- *)

\* mutant: the gate lets every call through
Admits_NoGate(cb, t) == TRUE

\* mutant: the gate compares with >= instead of >
Admits_AtTimeout(cb, t) ==
  \/ cb.state # "open"
  \/ cb.lastFailure # NoDate /\ t - cb.lastFailure >= defaultResetTimeout

\* circuit-breaker.service.ts:65-80, the gate: TRUE when the call is let through
Admits(cb, t) ==
  \/ cb.state # "open"
  \/ cb.lastFailure # NoDate /\ t - cb.lastFailure > defaultResetTimeout

\* circuit-breaker.service.ts:66-75, the breaker object after an admitted call's gate
AfterGate(cb) ==
  IF cb.state = "open"
    THEN [cb EXCEPT !.state = "half-open", !.successesInHalfOpen = 0]
    ELSE cb

\* mutant: the first success in half-open closes the breaker
OnSuccess_FirstCloses(cb) ==
  IF cb.state = "half-open"
    THEN [cb EXCEPT !.successesInHalfOpen = @ + 1, !.state = "closed", !.failures = 0]
    ELSE IF cb.state = "closed" THEN [cb EXCEPT !.failures = 0] ELSE cb

\* mutant: a success closes the breaker from open as well
OnSuccess_ClosesFromOpen(cb) ==
  IF cb.state \in {"half-open", "open"}
    THEN IF cb.successesInHalfOpen + 1 >= defaultHalfOpenSuccessThreshold
           THEN [cb EXCEPT !.successesInHalfOpen = @ + 1, !.state = "closed", !.failures = 0]
           ELSE [cb EXCEPT !.successesInHalfOpen = @ + 1]
    ELSE IF cb.state = "closed" THEN [cb EXCEPT !.failures = 0] ELSE cb

\* circuit-breaker.service.ts:86-99, success of the wrapped function
OnSuccess(cb) ==
  IF cb.state = "half-open"
    THEN IF cb.successesInHalfOpen + 1 >= defaultHalfOpenSuccessThreshold
           THEN [cb EXCEPT !.successesInHalfOpen = @ + 1, !.state = "closed", !.failures = 0]
           ELSE [cb EXCEPT !.successesInHalfOpen = @ + 1]
    ELSE IF cb.state = "closed"
           THEN [cb EXCEPT !.failures = 0]
           ELSE cb

\* mutant: the breaker opens one failure late (> instead of >=)
OnFailure_Late(cb, t) ==
  LET c1 == [cb EXCEPT !.failures = @ + 1, !.lastFailure = t]
  IN  IF c1.state = "closed" /\ c1.failures > defaultFailureThreshold
        THEN [c1 EXCEPT !.state = "open"]
        ELSE IF c1.state = "half-open" THEN [c1 EXCEPT !.state = "open"] ELSE c1

\* mutant: a failure in half-open reopens only once the threshold is reached again
OnFailure_HalfOpenTolerant(cb, t) ==
  LET c1 == [cb EXCEPT !.failures = @ + 1, !.lastFailure = t]
  IN  IF c1.state = "closed" /\ c1.failures >= defaultFailureThreshold
        THEN [c1 EXCEPT !.state = "open"]
        ELSE IF c1.state = "half-open" /\ c1.successesInHalfOpen = 0
               THEN [c1 EXCEPT !.state = "open"]
               ELSE c1

\* circuit-breaker.service.ts:102-116, failure of the wrapped function at time t
OnFailure(cb, t) ==
  LET c1 == [cb EXCEPT !.failures = @ + 1, !.lastFailure = t]
  IN  IF c1.state = "closed" /\ c1.failures >= defaultFailureThreshold
        THEN [c1 EXCEPT !.state = "open"]
        ELSE IF c1.state = "half-open"
               THEN [c1 EXCEPT !.state = "open"]
               ELSE c1

\* object ids some reference still reaches: the map's entries and the callers' locals
Referenced(cbs, pr) ==
  {cbs[k] : k \in Keys} \cup {pr[p].cb : p \in Procs}

\* objects no reference reaches are gone (garbage collection)
Collect(h, cbs, pr) ==
  [i \in ObjIds |-> IF i \in Referenced(cbs, pr) THEN h[i] ELSE Free]

CollectConsec(cs, cbs, pr) ==
  [i \in ObjIds |-> IF i \in Referenced(cbs, pr) THEN cs[i] ELSE 0]

\* allocation of a new object
FreshId == CHOOSE i \in ObjIds : heap[i].state = "free"

(* ---- RetryService ----------------------------------------------------- *)

\* mutant: every error is retried
retryCondition_Always(o, e) == TRUE

\* part_007:263 and the caller's predicate: may error e be retried
retryCondition(o, e) == o.retryAll \/ e = "transient"

\* 2^n
RECURSIVE Pow2(_)
Pow2(n) == IF n = 0 THEN 1 ELSE 2 * Pow2(n - 1)

\* mutant: the delay does not grow
Delay_Constant(o, attempt) == defaultRetryDelay

\* part_007:287-289, the delay before retry number attempt
Delay(o, attempt) ==
  IF o.exponentialBackOff THEN defaultRetryDelay * Pow2(attempt - 1) ELSE defaultRetryDelay

(* ---- BaseService.executeWithResilience -------------------------------- *)

cbOn(o) == o.useCircuitBreaker /\ circuitBreakerService
retryOn(o) == o.useRetry /\ retryService

\* mutant: the fallback value is never substituted
Caught_NoFallback(o) == "error"

\* part_003:99-108 with part_007:44-60: what a failed pipeline ends with
Caught(o) ==
  IF o.fallbackValue # Undefined /\ fallbackService THEN "fallback" ELSE "error"

\* the caller's record once the pipeline has ended with error e
Ended(r, e) ==
  [r EXCEPT !.pc = "idle", !.cb = 0, !.attempt = 0, !.error = e, !.result = Caught(r.opts)]

\* the next state, with unreachable breaker objects collected
Commit(h, cs, cbs, pr) ==
  /\ circuitBreakers' = cbs
  /\ proc' = pr
  /\ heap' = Collect(h, cbs, pr)
  /\ consec' = CollectConsec(cs, cbs, pr)

\* part_003:28-98 up to the first suspension: the breaker's lazy entry and gate
\* (circuit-breaker.service.ts:53-84), the retry loop's first pass
\* (part_007:268-273) and the first invocation of fn (part_003:66-68)
executeWithResilience(p, k, o) ==
  /\ proc[p].pc = "idle"
  /\ LET r0 == [IdleProc EXCEPT !.key = k, !.opts = o]
         has == circuitBreakers[k] # 0
         id == IF has THEN circuitBreakers[k] ELSE FreshId
         obj == IF has THEN heap[id] ELSE NewBreaker
         cbs == [circuitBreakers EXCEPT ![k] = id]
     IN  IF cbOn(o)
           THEN IF Admits(obj, now)
                  THEN Commit([heap EXCEPT ![id] = AfterGate(obj)], consec, cbs,
                              [proc EXCEPT ![p] = [r0 EXCEPT !.pc = "running", !.cb = id,
                                                             !.invocations = 1]])
                  ELSE Commit([heap EXCEPT ![id] = obj], consec, cbs,
                              [proc EXCEPT ![p] = Ended(r0, "circuit_open")])
           ELSE Commit(heap, consec, circuitBreakers,
                       [proc EXCEPT ![p] = [r0 EXCEPT !.pc = "running", !.invocations = 1]])
  /\ UNCHANGED <<now, schedVars>>

\* fn resolves: part_007:273 returns, circuit-breaker.service.ts:86-101
\* applies the success, part_003:81-97 returns the value
fnResolves(p) ==
  /\ proc[p].pc = "running"
  /\ LET r == proc[p]
         pr == [proc EXCEPT ![p] = [r EXCEPT !.pc = "idle", !.cb = 0, !.attempt = 0, !.error = "none",
                                            !.result = "value"]]
     IN  IF r.cb # 0
           THEN Commit([heap EXCEPT ![r.cb] = OnSuccess(@)], [consec EXCEPT ![r.cb] = 0],
                       circuitBreakers, pr)
           ELSE Commit(heap, consec, circuitBreakers, pr)
  /\ UNCHANGED <<now, schedVars>>

\* mutant: the retry loop gives up one retry early
Thrown_OneRetryFewer(p, r) ==
  IF retryOn(r.opts) /\ retryCondition(r.opts, r.error) /\ r.attempt + 1 < r.opts.maxRetries
    THEN Commit(heap, consec, circuitBreakers,
                [proc EXCEPT ![p] = [r EXCEPT !.pc = "sleeping", !.attempt = @ + 1,
                                              !.waits = Append(@, Delay(r.opts, r.attempt + 1))]])
    ELSE IF r.cb # 0
           THEN Commit([heap EXCEPT ![r.cb] = OnFailure(@, now)],
                       [consec EXCEPT ![r.cb] = @ + 1], circuitBreakers,
                       [proc EXCEPT ![p] = Ended(r, r.error)])
           ELSE Commit(heap, consec, circuitBreakers, [proc EXCEPT ![p] = Ended(r, r.error)])

\* the error of the wrapped function has left wrappedFn (part_003:72): the retry
\* loop's catch (part_007:274-303), then the breaker's catch
\* (circuit-breaker.service.ts:102-119) and the pipeline's catch (part_003:99-108)
Thrown(p, r) ==
  IF retryOn(r.opts) /\ retryCondition(r.opts, r.error) /\ r.attempt + 1 <= r.opts.maxRetries
    THEN Commit(heap, consec, circuitBreakers,
                [proc EXCEPT ![p] = [r EXCEPT !.pc = "sleeping", !.attempt = @ + 1,
                                              !.waits = Append(@, Delay(r.opts, r.attempt + 1))]])
    ELSE IF r.cb # 0
           THEN Commit([heap EXCEPT ![r.cb] = OnFailure(@, now)],
                       [consec EXCEPT ![r.cb] = @ + 1], circuitBreakers,
                       [proc EXCEPT ![p] = Ended(r, r.error)])
           ELSE Commit(heap, consec, circuitBreakers, [proc EXCEPT ![p] = Ended(r, r.error)])

\* fn rejects with error e: wrappedFn's catch (part_003:69-71) starts trackError
fnRejects(p, e) ==
  /\ proc[p].pc = "running"
  /\ LET r == [proc[p] EXCEPT !.error = e]
     IN  IF r.opts.trackError /\ errorTrackingService
           THEN Commit(heap, consec, circuitBreakers, [proc EXCEPT ![p] = [r EXCEPT !.pc = "tracking"]])
           ELSE Thrown(p, r)
  /\ UNCHANGED <<now, schedVars>>

\* part_007:123-149: the record is written, wrappedFn rethrows
trackError(p) ==
  /\ proc[p].pc = "tracking"
  /\ Thrown(p, [proc[p] EXCEPT !.tracked = @ + 1])
  /\ UNCHANGED <<now, schedVars>>

\* part_007:295 then 268-273: the backoff delay is over, fn is invoked again
sleep(p) ==
  /\ proc[p].pc = "sleeping"
  /\ Commit(heap, consec, circuitBreakers,
            [proc EXCEPT ![p] = [@ EXCEPT !.pc = "running", !.invocations = @ + 1]])
  /\ UNCHANGED <<now, schedVars>>

\* mutant: the reset keeps the failure count
resetCircuit_KeepsCount(k) ==
  /\ circuitBreakers[k] # 0
  /\ LET without == [circuitBreakers EXCEPT ![k] = 0]
         id == CHOOSE i \in ObjIds : i \notin Referenced(without, proc)
     IN  Commit([heap EXCEPT ![id] = [NewBreaker EXCEPT !.failures = heap[circuitBreakers[k]].failures]],
                [consec EXCEPT ![id] = 0], [circuitBreakers EXCEPT ![k] = id], proc)
  /\ UNCHANGED <<now, schedVars>>

\* circuit-breaker.service.ts:138-148
resetCircuit(k) ==
  /\ circuitBreakers[k] # 0
  /\ LET without == [circuitBreakers EXCEPT ![k] = 0]
         id == CHOOSE i \in ObjIds : i \notin Referenced(without, proc)
     IN  Commit([heap EXCEPT ![id] = NewBreaker], [consec EXCEPT ![id] = 0],
                [circuitBreakers EXCEPT ![k] = id], proc)
  /\ UNCHANGED <<now, schedVars>>

\* time passes
Tick ==
  /\ now < MaxTime
  /\ now' = now + 1
  /\ UNCHANGED <<circuitBreakers, heap, consec, proc, schedVars>>


(***************************************************************************)
(* PART II - the campaign scheduler                                        *)
(***************************************************************************)

Contacts == 1..NumContacts
Ticks == {"cron", "manual"}   \* @Cron(EVERY_MINUTE) and POST /scheduler/run

\* CallStatus values that end a call (telephony.controller.ts:222-227)
TerminalCallStatuses == {"completed", "failed", "busy", "no_answer"}
\* the statuses the status webhook delivers in the model
WebhookStatuses == {"in_progress", "completed"}

Max(a, b) == IF a >= b THEN a ELSE b
Min(a, b) == IF a <= b THEN a ELSE b

\* the calls of the campaign that are in flight: created and not ended
InFlightCalls == {i \in 1..Len(calls) : calls[i].status \notin TerminalCallStatuses}

\* CallService.getActiveCallCount(campaignId), called at scheduler.service.ts:95
getActiveCallCount == Cardinality(InFlightCalls)

\* scheduler.service.ts:92 and 100
availableSlots(c, count) ==
  Max(0, (IF c.maxConcurrentCalls = 0 THEN 1 ELSE c.maxConcurrentCalls) - count)

\* scheduler.service.ts:140, settings.callRetryAttempts || 3 (0: the setting is absent)
callRetryAttempts ==
  IF campaign.callRetryAttempts = 0 THEN defaultCallRetryAttempts
  ELSE campaign.callRetryAttempts

\* scheduler.service.ts:134-143, the query of findContactsForCalling
Selectable(c) ==
  \/ contacts[c].status = "pending"
  \/ contacts[c].status = "failed" /\ contacts[c].attemptCount < callRetryAttempts

\* mutant: the result is in insertion order
Before_ById(c, d) == c < d

\* scheduler.service.ts:147, sort({attemptCount: 1, lastAttemptDate: 1}): c before d
\* (a contact never attempted has no lastAttemptDate, 0 here, and sorts first)
Before(c, d) ==
  \/ contacts[c].attemptCount < contacts[d].attemptCount
  \/ /\ contacts[c].attemptCount = contacts[d].attemptCount
     /\ \/ contacts[c].lastAttemptDate < contacts[d].lastAttemptDate
        \/ contacts[c].lastAttemptDate = contacts[d].lastAttemptDate /\ c < d

\* the contacts of S in sort order
RECURSIVE Sorted(_)
Sorted(S) ==
  IF S = {} THEN <<>>
  ELSE LET first == CHOOSE c \in S : \A d \in S \ {c} : Before(c, d)
       IN  <<first>> \o Sorted(S \ {first})

\* scheduler.service.ts:129-150
findContactsForCalling(limit) ==
  LET all == Sorted({c \in Contacts : Selectable(c)})
  IN  SubSeq(all, 1, Min(limit, Len(all)))

\* part_021:203-212, the query of findAvailableContactsForCampaign
Available(c) ==
  /\ \/ contacts[c].status = "pending"
     \/ contacts[c].status = "failed" /\ contacts[c].attemptCount < 3
  /\ contacts[c].status # "do_not_call"

\* part_021:198-218, behind GET /contacts/campaign/:campaignId/available
findAvailableContactsForCampaign(limit) ==
  LET all == Sorted({c \in Contacts : Available(c)})
  IN  SubSeq(all, 1, Min(limit, Len(all)))

\* mutant: only pending contacts are counted
pendingCount_PendingOnly ==
  Cardinality({c \in Contacts : contacts[c].status = "pending"})

\* scheduler.service.ts:223-232, the count of checkCampaignCompletion
pendingCount ==
  Cardinality({c \in Contacts : contacts[c].status \in {"pending", "in_progress", "failed"}})

\* the counters of a dispatch before it began (history)
NoMark == [attemptCount |-> 0, contactedCount |-> 0, history |-> 0]

IdleTick ==
  [pc |-> "idle", availableSlots |-> 0, contacts |-> <<>>, i |-> 0, call |-> 0,
   overlapped |-> FALSE, sawInFlight |-> 0, sawSelectable |-> 0, dispatched |-> 0,
   was |-> NoMark]

\* a contact document that DELETE /contacts/:id has removed
Deleted == "deleted"

\* the contact the run of t is dispatching
Current(t) == tick[t].contacts[tick[t].i]

\* part_021:77-79, 93-95, 136-138: findByIdAndUpdate found no document
NotFound(t) == contacts[Current(t)].status = Deleted

Active(t) == tick[t].pc # "idle"

\* the run is over and its locals are gone
Finished(r) == IdleTick

\* scheduler.service.ts:164, the for loop goes on to the next contact or ends
NextContact(r) ==
  IF r.i < Len(r.contacts)
    THEN [r EXCEPT !.pc = "createCall", !.i = @ + 1, !.call = 0, !.was = NoMark]
    ELSE Finished(r)

\* scheduler.service.ts:39-60 and 65-79: a run starts and finds the eligible campaigns
processActiveCampaigns(t) ==
  /\ ~Active(t)
  /\ LET others == {u \in Ticks \ {t} : Active(u)}
         r0 == [IdleTick EXCEPT !.overlapped = others # {}]
     IN  tick' = [u \in Ticks |->
                    IF u = t THEN (IF campaign.status = "active"
                                     THEN [r0 EXCEPT !.pc = "processCampaign"]
                                     ELSE Finished(r0))
                    ELSE IF u \in others THEN [tick[u] EXCEPT !.overlapped = TRUE]
                    ELSE tick[u]]
  /\ UNCHANGED <<campaign, contacts, calls, clock, resVars>>

\* scheduler.service.ts:84-105: the active calls are counted, the free slots computed
processCampaign(t) ==
  /\ tick[t].pc = "processCampaign"
  /\ LET slots == availableSlots(campaign, getActiveCallCount)
         r == [tick[t] EXCEPT !.availableSlots = slots, !.sawInFlight = getActiveCallCount]
     IN  tick' = [tick EXCEPT ![t] = IF slots = 0 THEN Finished(r)
                                     ELSE [r EXCEPT !.pc = "findContacts"]]
  /\ UNCHANGED <<campaign, contacts, calls, clock, resVars>>

\* scheduler.service.ts:107-120 with 129-150: the batch is selected
findContacts(t) ==
  /\ tick[t].pc = "findContacts"
  /\ LET batch == findContactsForCalling(tick[t].availableSlots)
     IN  tick' = [tick EXCEPT ![t] =
                    LET r == [@ EXCEPT !.sawSelectable =
                                        Cardinality({c \in Contacts : Selectable(c)})]
                    IN  IF Len(batch) = 0 THEN [r EXCEPT !.pc = "checkCompletion"]
                        ELSE [r EXCEPT !.pc = "createCall", !.contacts = batch, !.i = 1]]
  /\ UNCHANGED <<campaign, contacts, calls, clock, resVars>>

\* scheduler.service.ts:221-235: the remaining contacts are counted
checkCampaignCompletion(t) ==
  /\ tick[t].pc = "checkCompletion"
  /\ tick' = [tick EXCEPT ![t] = IF pendingCount = 0 THEN [@ EXCEPT !.pc = "markCompleted"]
                                 ELSE Finished(@)]
  /\ UNCHANGED <<campaign, contacts, calls, clock, resVars>>

\* scheduler.service.ts:238-244
markCompleted(t) ==
  /\ tick[t].pc = "markCompleted"
  /\ campaign' = [campaign EXCEPT !.status = "completed"]
  /\ tick' = [tick EXCEPT ![t] = Finished(@)]
  /\ UNCHANGED <<contacts, calls, clock, resVars>>

\* part_019:106-121 (initiateOutboundCall, called at scheduler.service.ts:167):
\* the call document is created with status initiated
createCall(t) ==
  /\ tick[t].pc = "createCall"
  /\ Len(calls) < MaxCalls
  /\ calls' = Append(calls, [contact |-> Current(t), status |-> "initiated",
                             sid |-> FALSE])
  /\ tick' = [tick EXCEPT ![t] =
                [@ EXCEPT !.pc = "makeCall", !.call = Len(calls) + 1, !.dispatched = @ + 1,
                          !.was = [attemptCount |-> contacts[Current(t)].attemptCount,
                                   contactedCount |-> campaign.contactedCount,
                                   history |-> Len(contacts[Current(t)].history)]]]
  /\ UNCHANGED <<campaign, contacts, clock, resVars>>

\* part_019:127-141: TwilioService.makeCall (breaker around retry) returned a call,
\* its sid is stored
makeCallReturns(t) ==
  /\ tick[t].pc = "makeCall"
  /\ calls' = [calls EXCEPT ![tick[t].call].sid = TRUE]
  /\ tick' = [tick EXCEPT ![t] = [@ EXCEPT !.pc = "updateStatus"]]
  /\ UNCHANGED <<campaign, contacts, clock, resVars>>

\* part_019:142-151: TwilioService.makeCall threw, the call document is set to failed
\* and the error goes on to the scheduler's catch
makeCallThrows(t) ==
  /\ tick[t].pc = "makeCall"
  /\ calls' = [calls EXCEPT ![tick[t].call].status = "failed"]
  /\ tick' = [tick EXCEPT ![t] = [@ EXCEPT !.pc = "caught"]]
  /\ UNCHANGED <<campaign, contacts, clock, resVars>>

\* scheduler.service.ts:176-179 with part_021:70-82; a NotFoundException goes to
\* the catch of line 198
updateStatus(t) ==
  /\ tick[t].pc = "updateStatus"
  /\ IF NotFound(t)
       THEN /\ tick' = [tick EXCEPT ![t] = [@ EXCEPT !.pc = "caught"]]
            /\ UNCHANGED contacts
       ELSE /\ contacts' = [contacts EXCEPT ![Current(t)].status = "in_progress"]
            /\ tick' = [tick EXCEPT ![t] = [@ EXCEPT !.pc = "incrementAttemptCount"]]
  /\ UNCHANGED <<campaign, calls, clock, resVars>>

\* scheduler.service.ts:182 with part_021:84-99
incrementAttemptCount(t) ==
  /\ tick[t].pc = "incrementAttemptCount"
  /\ IF NotFound(t)
       THEN /\ tick' = [tick EXCEPT ![t] = [@ EXCEPT !.pc = "caught"]]
            /\ UNCHANGED <<contacts, clock>>
       ELSE /\ contacts' = [contacts EXCEPT ![Current(t)] =
                              [@ EXCEPT !.attemptCount = @ + 1, !.lastAttemptDate = clock]]
            /\ clock' = clock + 1
            /\ tick' = [tick EXCEPT ![t] = [@ EXCEPT !.pc = "addHistoryEntry"]]
  /\ UNCHANGED <<campaign, calls, resVars>>

\* mutant: the success path appends no history entry
addHistoryEntry_Skipped(t) ==
  /\ tick[t].pc = "addHistoryEntry"
  /\ tick' = [tick EXCEPT ![t] = [@ EXCEPT !.pc = "contactedCount"]]
  /\ UNCHANGED <<campaign, contacts, calls, clock, resVars>>

\* scheduler.service.ts:185-189 with part_021:118-142
addHistoryEntry(t) ==
  /\ tick[t].pc = "addHistoryEntry"
  /\ IF NotFound(t)
       THEN /\ tick' = [tick EXCEPT ![t] = [@ EXCEPT !.pc = "caught"]]
            /\ UNCHANGED contacts
       ELSE /\ contacts' = [contacts EXCEPT ![Current(t)].history = Append(@, "call_initiated")]
            /\ tick' = [tick EXCEPT ![t] = [@ EXCEPT !.pc = "contactedCount"]]
  /\ UNCHANGED <<campaign, calls, clock, resVars>>

\* scheduler.service.ts:192-195, then the loop goes on
contactedCount(t) ==
  /\ tick[t].pc = "contactedCount"
  /\ campaign' = [campaign EXCEPT !.contactedCount = @ + 1]
  /\ tick' = [tick EXCEPT ![t] = NextContact(@)]
  /\ UNCHANGED <<contacts, calls, clock, resVars>>

\* scheduler.service.ts:198-208, the catch: the contact is marked failed; a
\* NotFoundException thrown here leaves the for loop and initiateContactCalls, and
\* is logged by the catch of processCampaign (line 121)
caught(t) ==
  /\ tick[t].pc = "caught"
  /\ IF NotFound(t)
       THEN /\ tick' = [tick EXCEPT ![t] = Finished(@)]
            /\ UNCHANGED contacts
       ELSE /\ contacts' = [contacts EXCEPT ![Current(t)].status = "failed"]
            /\ tick' = [tick EXCEPT ![t] = [@ EXCEPT !.pc = "addFailedEntry"]]
  /\ UNCHANGED <<campaign, calls, clock, resVars>>

\* scheduler.service.ts:209-214, then the loop goes on
addFailedEntry(t) ==
  /\ tick[t].pc = "addFailedEntry"
  /\ IF NotFound(t)
       THEN /\ tick' = [tick EXCEPT ![t] = Finished(@)]
            /\ UNCHANGED contacts
       ELSE /\ contacts' = [contacts EXCEPT ![Current(t)].history = Append(@, "call_failed")]
            /\ tick' = [tick EXCEPT ![t] = NextContact(@)]
  /\ UNCHANGED <<campaign, calls, clock, resVars>>

\* telephony.controller.ts:181-240: Twilio reports the status of a placed call
handleStatusWebhook(id, st) ==
  /\ id \in InFlightCalls
  /\ calls[id].sid
  /\ calls[id].status # st
  /\ calls' = [calls EXCEPT ![id].status = st]
  /\ UNCHANGED <<campaign, contacts, clock, tick, resVars>>

\* the statuses an operator sets in the model
PatchStatuses == {"completed"}

\* contact.controller.ts:94-104 with part_021:70-82: PATCH /contacts/:id/status
patchStatus(c, st) ==
  /\ contacts[c].status \notin {st, Deleted}
  /\ contacts' = [contacts EXCEPT ![c].status = st]
  /\ UNCHANGED <<campaign, calls, clock, tick, resVars>>

\* contact.controller.ts:77-84 with part_021:56-62: DELETE /contacts/:id
remove(c) ==
  /\ contacts[c].status # Deleted
  /\ contacts' = [contacts EXCEPT ![c].status = Deleted]
  /\ UNCHANGED <<campaign, calls, clock, tick, resVars>>

InitResilience ==
  /\ now = 0
  /\ circuitBreakers = [k \in Keys |-> 0]
  /\ heap = [i \in ObjIds |-> Free]
  /\ consec = [i \in ObjIds |-> 0]
  /\ proc = [p \in Procs |-> IdleProc]

\* an active campaign in its date window whose contacts were just imported
\* (part_021:152-161: pending, attemptCount 0, one history entry)
InitScheduler ==
  /\ campaign \in [status : {"active"}, maxConcurrentCalls : 0..MaxSlots, contactedCount : {0},
                  callRetryAttempts : {0}]
  /\ contacts = [c \in Contacts |->
                   [status |-> "pending", attemptCount |-> 0, lastAttemptDate |-> 0,
                    history |-> <<"imported">>]]
  /\ calls = <<>>
  /\ clock = 1
  /\ tick = [t \in Ticks |-> IdleTick]

Init == InitResilience /\ InitScheduler

Next ==
  \/ \E t \in Ticks : processActiveCampaigns(t)
  \/ \E t \in Ticks : processCampaign(t)
  \/ \E t \in Ticks : findContacts(t)
  \/ \E t \in Ticks : checkCampaignCompletion(t)
  \/ \E t \in Ticks : markCompleted(t)
  \/ \E t \in Ticks : createCall(t)
  \/ \E t \in Ticks : makeCallReturns(t)
  \/ \E t \in Ticks : makeCallThrows(t)
  \/ \E t \in Ticks : updateStatus(t)
  \/ \E t \in Ticks : incrementAttemptCount(t)
  \/ \E t \in Ticks : addHistoryEntry(t)
  \/ \E t \in Ticks : contactedCount(t)
  \/ \E t \in Ticks : caught(t)
  \/ \E t \in Ticks : addFailedEntry(t)
  \/ \E id \in 1..MaxCalls, st \in WebhookStatuses : handleStatusWebhook(id, st)
  \/ \E c \in Contacts, st \in PatchStatuses :
        contacts[c].status \in {"in_progress", "failed"} /\ patchStatus(c, st)

Spec == Init /\ [][Next]_vars

\* the statuses an operator sets in SpecSel
OutcomeStatuses == {"completed", "failed", "do_not_call"}

\* the retry settings of the campaigns of SpecSel (0: absent)
RetrySettings == {0, 1, 2}

\* one run at a time (the cron run), campaigns with and without a retry setting,
\* operators recording every outcome
InitSel ==
  /\ InitResilience
  /\ campaign \in [status : {"active"}, maxConcurrentCalls : 0..MaxSlots, contactedCount : {0},
                    callRetryAttempts : RetrySettings]
  /\ contacts = [c \in Contacts |->
                   [status |-> "pending", attemptCount |-> 0, lastAttemptDate |-> 0,
                    history |-> <<"imported">>]]
  /\ calls = <<>>
  /\ clock = 1
  /\ tick = [t \in Ticks |-> IdleTick]

NextSel ==
  \/ processActiveCampaigns("cron")
  \/ processCampaign("cron")
  \/ findContacts("cron")
  \/ checkCampaignCompletion("cron")
  \/ markCompleted("cron")
  \/ createCall("cron")
  \/ makeCallReturns("cron")
  \/ makeCallThrows("cron")
  \/ updateStatus("cron")
  \/ incrementAttemptCount("cron")
  \/ addHistoryEntry("cron")
  \/ contactedCount("cron")
  \/ caught("cron")
  \/ addFailedEntry("cron")
  \/ \E id \in 1..MaxCalls, st \in WebhookStatuses : handleStatusWebhook(id, st)
  \/ \E c \in Contacts, st \in OutcomeStatuses : patchStatus(c, st)
  \/ \E c \in Contacts : remove(c)

SpecSel == InitSel /\ [][NextSel]_vars

\* the resilience specifications leave the scheduler's state alone
InitRes ==
  /\ InitResilience
  /\ campaign = [status |-> "active", maxConcurrentCalls |-> 0, contactedCount |-> 0,
                 callRetryAttempts |-> 0]
  /\ contacts = [c \in Contacts |->
                   [status |-> "pending", attemptCount |-> 0, lastAttemptDate |-> 0,
                    history |-> <<"imported">>]]
  /\ calls = <<>>
  /\ clock = 1
  /\ tick = [t \in Ticks |-> IdleTick]

\* one caller at a time, every combination of options
NextRes ==
  \/ \E k \in TwilioKey, o \in AllOpts : executeWithResilience(1, k, o)
  \/ fnResolves(1)
  \/ \E e \in Errors : fnRejects(1, e)
  \/ trackError(1)
  \/ sleep(1)

SpecRes == InitRes /\ [][NextRes]_vars

\* one caller at a time, while time passes and breakers are reset by hand
NextSeq ==
  \/ \E k \in TwilioKey, o \in SeqOpts : executeWithResilience(1, k, o)
  \/ fnResolves(1)
  \/ \E e \in Errors : fnRejects(1, e)
  \/ sleep(1)
  \/ \E k \in TwilioKey : resetCircuit(k)
  \/ Tick

SpecSeq == InitRes /\ [][NextSeq]_vars

\* concurrent callers with the options of TwilioService.makeCall
NextCB ==
  \/ \E p \in Procs, k \in TwilioKey, o \in ConcOpts : executeWithResilience(p, k, o)
  \/ \E p \in Procs : fnResolves(p)
  \/ \E p \in Procs, e \in Errors : fnRejects(p, e)
  \/ \E p \in Procs : sleep(p)
  \/ \E k \in TwilioKey : resetCircuit(k)
  \/ Tick

SpecCB == InitRes /\ [][NextCB]_vars

\* the options of the runs on two keys: the breaker alone
KeyOpts ==
  {o \in SeqOpts : o.useCircuitBreaker /\ ~o.useRetry /\ o.fallbackValue = Undefined
                    /\ o.maxRetries = 0}

\* one caller at a time on the keys of TwilioService and OpenAiService, while
\* time passes and breakers are reset by hand
NextKeys ==
  \/ \E k \in Keys, o \in KeyOpts : executeWithResilience(1, k, o)
  \/ fnResolves(1)
  \/ \E e \in Errors : fnRejects(1, e)
  \/ \E k \in Keys : resetCircuit(k)
  \/ Tick

SpecKeys == InitRes /\ [][NextKeys]_vars

\* telephony.controller.ts:101 with part_019:69-104: POST complete, the call
\* document is set to completed; no contact is read or written
completeCall(id) ==
  /\ id \in 1..Len(calls)
  /\ calls[id].status # "completed"
  /\ calls' = [calls EXCEPT ![id].status = "completed"]
  /\ UNCHANGED <<campaign, contacts, clock, tick, resVars>>

\* the documents no step reads again leave the model: ended calls (only active
\* calls are counted, scheduler.service.ts:95) and history entries (only pushed,
\* part_021:131-135), so that runs can go on for ever in a finite state space
archive ==
  /\ calls # <<>>
  /\ InFlightCalls = {}
  /\ \A t \in Ticks : tick[t].pc # "makeCall"
  /\ calls' = <<>>
  /\ contacts' = [c \in Contacts |-> [contacts[c] EXCEPT !.history = <<>>]]
  /\ tick' = [t \in Ticks |-> [tick[t] EXCEPT !.call = 0]]
  /\ UNCHANGED <<campaign, clock, resVars>>

\* scheduler.service.ts:38-246: the next step of the run of t
run(t) ==
  \/ processActiveCampaigns(t)
  \/ processCampaign(t)
  \/ findContacts(t)
  \/ checkCampaignCompletion(t)
  \/ markCompleted(t)
  \/ createCall(t)
  \/ makeCallReturns(t)
  \/ makeCallThrows(t)
  \/ updateStatus(t)
  \/ incrementAttemptCount(t)
  \/ addHistoryEntry(t)
  \/ contactedCount(t)
  \/ caught(t)
  \/ addFailedEntry(t)

\* telephony.controller.ts:181-240: Twilio reports that a placed call has ended
callEnds == \E id \in 1..MaxCalls, st \in TerminalCallStatuses : handleStatusWebhook(id, st)

\* a campaign with a positive limit whose cron run comes back every minute for
\* ever; every placed call ends; an operator may complete a contact
InitLive ==
  /\ InitResilience
  /\ campaign \in [status : {"active"}, maxConcurrentCalls : 1..MaxSlots, contactedCount : {0},
                    callRetryAttempts : {0}]
  /\ contacts = [c \in Contacts |->
                   [status |-> "pending", attemptCount |-> 0, lastAttemptDate |-> 0,
                    history |-> <<"imported">>]]
  /\ calls = <<>>
  /\ clock = 1
  /\ tick = [t \in Ticks |-> IdleTick]

NextLive ==
  \/ run("cron")
  \/ callEnds
  \/ \E id \in 1..MaxCalls : handleStatusWebhook(id, "in_progress")
  \/ \E id \in 1..MaxCalls : completeCall(id)
  \/ \E c \in Contacts : contacts[c].status = "in_progress" /\ patchStatus(c, "completed")
  \/ archive

\* scheduler.service.ts:38, @Cron(EVERY_MINUTE): the run is started again and its
\* awaits resolve; Twilio reports the end of every placed call
SpecLive ==
  /\ InitLive
  /\ [][NextLive]_vars
  /\ WF_vars(run("cron"))
  /\ WF_vars(callEnds)
  /\ WF_vars(archive)

(***************************************************************************)
(* Claims about the resilience pipeline                                    *)
(***************************************************************************)

\* p enters executeWithResilience in this step
Enters(p) == proc[p].pc = "idle" /\ proc'[p] # proc[p]

\* the breaker object registered for the key of the call p enters with (0: none yet)
EnteredOn(p) == circuitBreakers[proc'[p].key]

\* the pipeline of p ends in this step with a success / with a failure of the
\* wrapped function, on the breaker object that is still the registered one
Returns(p) == proc[p].pc = "running" /\ proc'[p].pc = "idle" /\ proc'[p].result = "value"
Fails(p) ==
  proc[p].pc \in {"running", "tracking"} /\ proc'[p].pc = "idle" /\ proc'[p].result # "value"
Registered(p) == proc[p].cb # 0 /\ circuitBreakers[proc[p].key] = proc[p].cb

\* C4: with calls made one after the other, a breaker goes from closed to open
\* exactly on the failure that brings the failures since the last success to
\* failureThreshold: it never opens before, it is never still closed with that many,
\* and in closed the failure count is the number of failures since the last success
\* (so a success resets it to 0).
C4_OpensAtThreshold ==
  [][\A i \in ObjIds :
       /\ (heap[i].state = "closed" /\ heap'[i].state = "open")
            => consec'[i] = defaultFailureThreshold
       /\ heap'[i].state = "closed"
            => (consec'[i] < defaultFailureThreshold /\ heap'[i].failures = consec'[i])]_vars

C4_Witness ==
  \E i \in ObjIds : /\ heap[i].state = "open"
                    /\ consec[i] = defaultFailureThreshold
                    /\ heap[i].failures = defaultFailureThreshold

\* C5: a call that enters while its breaker is open and no more than resetTimeout
\* has passed since lastFailure ends at once with the circuit-open error: the wrapped
\* function is not invoked, no retry attempt and no backoff delay happens, and the
\* breaker object is left as it was.
C5_FailFast ==
  [][\A p \in Procs :
       (/\ Enters(p)
        /\ cbOn(proc'[p].opts)
        /\ EnteredOn(p) # 0
        /\ heap[EnteredOn(p)].state = "open"
        /\ now - heap[EnteredOn(p)].lastFailure <= defaultResetTimeout)
       => /\ proc'[p].pc = "idle"
          /\ proc'[p].error = "circuit_open"
          /\ proc'[p].invocations = 0
          /\ proc'[p].attempt = 0
          /\ proc'[p].waits = <<>>
          /\ heap' = heap
          /\ circuitBreakers' = circuitBreakers]_vars

C5_Witness ==
  \E p \in Procs :
    /\ proc[p].pc = "idle" /\ proc[p].error = "circuit_open" /\ proc[p].invocations = 0
    /\ proc[p].opts.useRetry /\ proc[p].opts.maxRetries > 0
    /\ heap[circuitBreakers[proc[p].key]].state = "open"

\* C6: a call that enters while its breaker is open and more than resetTimeout has
\* passed since lastFailure moves the breaker to half-open with successesInHalfOpen
\* 0 and invokes the wrapped function; at exactly resetTimeout it fails fast.
C6_HalfOpenProbe ==
  [][\A p \in Procs :
       (/\ Enters(p)
        /\ cbOn(proc'[p].opts)
        /\ EnteredOn(p) # 0
        /\ heap[EnteredOn(p)].state = "open")
       => LET id == EnteredOn(p)
              elapsed == now - heap[id].lastFailure
          IN  /\ elapsed > defaultResetTimeout
                   => /\ heap'[id].state = "half-open"
                      /\ heap'[id].successesInHalfOpen = 0
                      /\ proc'[p].pc = "running"
                      /\ proc'[p].cb = id
                      /\ proc'[p].invocations = 1
              /\ elapsed = defaultResetTimeout
                   => /\ proc'[p].pc = "idle"
                      /\ proc'[p].error = "circuit_open"
                      /\ heap'[id].state = "open"]_vars

C6_Witness ==
  \E p \in Procs :
    /\ proc[p].pc = "running" /\ proc[p].cb # 0 /\ proc[p].invocations = 1
    /\ heap[proc[p].cb].state = "half-open"
    /\ heap[proc[p].cb].successesInHalfOpen = 0
    /\ now - heap[proc[p].cb].lastFailure = defaultResetTimeout + 1

\* C7: a success of a call whose breaker is half-open adds one to
\* successesInHalfOpen; the breaker stays half-open below
\* halfOpenSuccessThreshold and becomes closed with failures 0 on the success
\* that reaches it.
C7_HalfOpenSuccess ==
  [][\A p \in Procs :
       (Returns(p) /\ Registered(p) /\ heap[proc[p].cb].state = "half-open")
       => LET id == proc[p].cb
              n == heap[id].successesInHalfOpen + 1
          IN  /\ heap'[id].successesInHalfOpen = n
              /\ IF n >= defaultHalfOpenSuccessThreshold
                   THEN heap'[id].state = "closed" /\ heap'[id].failures = 0
                   ELSE heap'[id].state = "half-open"
                        /\ heap'[id].failures = heap[id].failures]_vars

C7_Witness ==
  \E k \in Keys :
    /\ circuitBreakers[k] # 0
    /\ heap[circuitBreakers[k]].state = "closed"
    /\ heap[circuitBreakers[k]].successesInHalfOpen = defaultHalfOpenSuccessThreshold
    /\ heap[circuitBreakers[k]].failures = 0

\* C8: a failure of a call whose breaker is half-open reopens the breaker with
\* lastFailure the time of that failure, whatever successesInHalfOpen was; the
\* gate then refuses every call up to resetTimeout later and admits one after that.
C8_HalfOpenFailure ==
  [][\A p \in Procs :
       (Fails(p) /\ Registered(p) /\ heap[proc[p].cb].state = "half-open")
       => LET id == proc[p].cb
          IN  /\ heap'[id].state = "open"
              /\ heap'[id].lastFailure = now
              /\ \A t \in now..(now + defaultResetTimeout) : ~Admits(heap'[id], t)
              /\ Admits(heap'[id], now + defaultResetTimeout + 1)]_vars

C8_Witness ==
  \E k \in Keys :
    /\ circuitBreakers[k] # 0
    /\ heap[circuitBreakers[k]].state = "open"
    /\ heap[circuitBreakers[k]].successesInHalfOpen = 1
    /\ heap[circuitBreakers[k]].lastFailure = now

\* the state of the breaker registered for key k
StateOf(k) == IF circuitBreakers[k] = 0 THEN "none" ELSE heap[circuitBreakers[k]].state

LegalTransitions ==
  { <<"none", "closed">>, <<"closed", "open">>, <<"open", "half-open">>,
    <<"half-open", "closed">>, <<"half-open", "open">> }

\* C9: with concurrent calls on one key, every change of the state of the key's
\* breaker is closed->open, open->half-open, half-open->closed, half-open->open,
\* the creation of the entry, or the manual reset to closed (the only change made
\* by a step that is no caller's).
C9_LegalTransitions ==
  [][\A k \in Keys :
       StateOf(k)' # StateOf(k)
       => \/ <<StateOf(k), StateOf(k)'>> \in LegalTransitions
          \/ proc' = proc /\ StateOf(k)' = "closed"]_vars

C9_Witness ==
  \E p \in Procs, q \in Procs :
    /\ p # q
    /\ proc[p].pc = "running"
    /\ proc[p].cb = circuitBreakers[proc[p].key]
    /\ heap[proc[p].cb].state = "open"
    /\ proc[q].pc = "idle" /\ proc[q].error = "circuit_open"

C11_NoErrorUntracked ==
  \A p \in Procs :
    (/\ proc[p].pc = "idle"
     /\ proc[p].result \in {"error", "fallback"}
     /\ proc[p].opts.trackError)
    => proc[p].tracked >= 1

\* C12: executeWithRetry with maxRetries = n and a retryCondition that accepts
\* every error: when every attempt fails the function has been invoked exactly n+1
\* times and the error raised is the one of the last attempt; when an attempt
\* succeeds its value is returned at once, without a further invocation.
C12_RetryCount ==
  [][\A p \in Procs :
       (retryOn(proc[p].opts) /\ proc[p].opts.retryAll)
       => /\ Fails(p)
               => /\ proc'[p].invocations = proc[p].opts.maxRetries + 1
                  /\ proc'[p].invocations = proc[p].invocations
                  /\ proc'[p].error \in Errors
                  /\ proc[p].pc = "tracking" => proc'[p].error = proc[p].error
          /\ Returns(p)
               => /\ proc'[p].invocations = proc[p].invocations
                  /\ proc'[p].invocations <= proc[p].opts.maxRetries + 1
                  /\ proc'[p].error = "none"]_vars

C12_Witness ==
  \E p \in Procs :
    /\ proc[p].pc = "idle" /\ proc[p].result = "error" /\ proc[p].error \in Errors
    /\ proc[p].opts.useRetry /\ proc[p].opts.retryAll
    /\ proc[p].opts.maxRetries = MaxRetries
    /\ proc[p].invocations = MaxRetries + 1

\* C13: when the wrapped function fails with an error retryCondition refuses,
\* executeWithRetry rethrows that error at once: no backoff delay is waited and
\* the function is not invoked again, whatever number of retries remains.
C13_NoRetryWhenRefused ==
  [][\A p \in Procs :
       (/\ proc[p].pc \in {"running", "tracking"}
        /\ proc'[p] # proc[p]
        /\ retryOn(proc[p].opts)
        /\ ~proc[p].opts.retryAll
        /\ proc'[p].error = "permanent")
       => /\ proc'[p].pc \in {"tracking", "idle"}
          /\ proc'[p].waits = proc[p].waits
          /\ proc'[p].invocations = proc[p].invocations
          /\ proc'[p].pc = "idle" => proc'[p].result # "value"]_vars

C13_Witness ==
  \E p \in Procs :
    /\ proc[p].pc = "idle" /\ proc[p].error = "permanent" /\ proc[p].result = "error"
    /\ proc[p].opts.useRetry /\ ~proc[p].opts.retryAll
    /\ proc[p].opts.maxRetries = MaxRetries
    /\ proc[p].invocations = 1 /\ proc[p].waits = <<>>

\* C14: the wait before the k-th retry is retryDelay * 2^(k-1) with exponential
\* backoff and retryDelay without; a wait precedes every retry and none follows
\* the final failed attempt; with maxRetries = 3, retryDelay = 1000 and every
\* attempt failing the waits are 1000, 2000, 4000.
C14_BackoffDelays ==
  \A p \in Procs :
    LET w == proc[p].waits
        o == proc[p].opts
    IN  /\ Len(w) <= o.maxRetries
        /\ \A k \in 1..Len(w) :
             w[k] = IF o.exponentialBackOff THEN defaultRetryDelay * 2^(k - 1)
                    ELSE defaultRetryDelay
        /\ proc[p].invocations >= 1
             => Len(w) = IF proc[p].pc = "sleeping" THEN proc[p].invocations
                         ELSE proc[p].invocations - 1
        /\ (/\ proc[p].pc = "idle" /\ proc[p].result # "value" /\ proc[p].invocations = 4
            /\ o.maxRetries = 3 /\ o.exponentialBackOff)
             => w = <<1000, 2000, 4000>>

C14_Witness ==
  \E p \in Procs :
    /\ proc[p].pc = "idle" /\ proc[p].result = "error" /\ proc[p].error = "transient"
    /\ proc[p].opts.maxRetries = 3 /\ proc[p].opts.exponentialBackOff
    /\ proc[p].invocations = 4
    /\ proc[p].waits = <<1000, 2000, 4000>>

\* C15: when all maxRetries retries are used up and the last attempt fails with a
\* retryable error, the error raised is a RetriesExhaustedError wrapping the last
\* error, which the caller can tell from the error of a failure not retried.
C15_RetriesExhaustedError ==
  [][\A p \in Procs :
       (/\ Fails(p)
        /\ retryOn(proc[p].opts)
        /\ proc[p].opts.maxRetries >= 1
        /\ proc'[p].invocations = proc[p].opts.maxRetries + 1
        /\ (proc[p].opts.retryAll \/ proc'[p].error = "transient"))
       => proc'[p].error = "retries_exhausted"]_vars

\* the breaker status registered for key k
StatusOf(k) == IF circuitBreakers[k] = 0 THEN Free ELSE heap[circuitBreakers[k]]

\* a call on key k enters or ends in this step
ExecutionOn(k) ==
  \E p \in Procs :
    /\ proc'[p] # proc[p]
    /\ IF proc[p].pc = "idle" THEN proc'[p].key = k ELSE proc[p].key = k

\* C24: the manual reset of a key leaves its breaker closed with failures 0,
\* successesInHalfOpen 0 and no lastFailure, whatever its state was, so that the
\* gate admits the next call at any time; apart from the reset, the status
\* registered for a key changes only in a step of an execution on that same key.
C24_ManualReset ==
  [][\A k \in Keys :
       /\ resetCircuit(k)
            => /\ StatusOf(k)' = [state |-> "closed", failures |-> 0, lastFailure |-> NoDate,
                                  successesInHalfOpen |-> 0]
               /\ \A t \in 0..MaxTime : Admits(StatusOf(k)', t)
               /\ \A j \in Keys \ {k} : StatusOf(j)' = StatusOf(j)
       /\ StatusOf(k)' # StatusOf(k) => (resetCircuit(k) \/ ExecutionOn(k))]_vars

C24_Witness ==
  \E p \in Procs, j \in Keys :
    /\ proc[p].pc = "running"
    /\ proc[p].cb # 0 /\ proc[p].cb # circuitBreakers[proc[p].key]
    /\ heap[proc[p].cb].state = "half-open"
    /\ StatusOf(proc[p].key) = NewBreaker
    /\ j # proc[p].key /\ StatusOf(j).state = "open"

\* the wrapped function of p is invoked in this step: on entry or for a retry
Invokes(p) == proc[p].pc \in {"idle", "sleeping"} /\ proc'[p].pc = "running"

\* the breaker registered for key k is open and resetTimeout has not passed
Refusing(k) ==
  /\ StatusOf(k).state = "open"
  /\ now - StatusOf(k).lastFailure <= defaultResetTimeout

\* C25: retries do not bypass the breaker: with concurrent calls on one key, no
\* invocation of the wrapped function begins while the key's breaker is open and
\* resetTimeout has not passed, the retries of a call admitted earlier included.
C25_RetriesInsideBreaker ==
  [][\A p \in Procs :
       (Invokes(p) /\ cbOn(proc'[p].opts)) => ~Refusing(proc'[p].key)]_vars

\* C26: the outcome of an execution is applied to the breaker status registered
\* for its key at that time, also when the key was reset while the call was in
\* flight: a failure of the wrapped function is counted in the registered status.
C26_OutcomeOnRegistered ==
  [][\A p \in Procs :
       (Fails(p) /\ proc[p].cb # 0)
       => /\ StatusOf(proc[p].key)'.failures = StatusOf(proc[p].key).failures + 1
          /\ StatusOf(proc[p].key)'.lastFailure = now]_vars

\* the call that took the registered breaker of k from open to half-open has not
\* resolved yet: the breaker is half-open without a success, and a call that
\* holds it is in flight
ProbeInFlight(k) ==
  /\ StatusOf(k).state = "half-open"
  /\ StatusOf(k).successesInHalfOpen = 0
  /\ \E q \in Procs : /\ proc[q].pc \in {"running", "sleeping"}
                      /\ proc[q].key = k
                      /\ proc[q].cb = circuitBreakers[k]

\* C29: the half-open probe is single: while the breaker of a key is half-open
\* with its probe in flight, no other call on that key has its function invoked.
C29_SingleProbe ==
  [][\A p \in Procs :
       (proc[p].pc = "idle" /\ proc'[p].pc = "running" /\ cbOn(proc'[p].opts))
       => ~ProbeInFlight(proc'[p].key)]_vars

(***************************************************************************)
(* Claims about the campaign scheduler                                     *)
(***************************************************************************)

\* the in-flight calls to contact c
InFlightTo(c) == {i \in InFlightCalls : calls[i].contact = c}

\* the step ends the run of t, and no other run was active during it
EndsAlone(t) == Active(t) /\ ~Active(t)' /\ ~tick[t].overlapped

\* what the run of t must have dispatched when it ends: the smaller of the free
\* slots it counted and the selectable contacts it found (a run that ends at the
\* count has found no slot and selected nothing)
Due(t) ==
  IF tick[t].pc = "processCampaign" THEN 0
  ELSE Min(Max(0, campaign.maxConcurrentCalls - tick[t].sawInFlight), tick[t].sawSelectable)

\* C1: in every reachable state, whatever the interleaving of the cron run and
\* the manual run, the in-flight calls of the campaign number at most its
\* maxConcurrentCalls.  Stated for a limit of at least 1, so that a violation
\* is one of the interleaving and not of the limit 0 being read as 1.
C1_ConcurrencyLimit ==
  campaign.maxConcurrentCalls >= 1 => Cardinality(InFlightCalls) <= campaign.maxConcurrentCalls

\* C2: a contact has at most one in-flight dispatch: whatever the interleaving
\* of the runs, no contact has a second call initiated while an earlier call to
\* it is still in flight.
C2_OneInFlightPerContact == \A c \in Contacts : Cardinality(InFlightTo(c)) <= 1

\* C3: a run that no other run overlaps dispatches min(availableSlots, selectable
\* contacts) calls with availableSlots = max(0, maxConcurrentCalls - in-flight
\* count), and a run that counts as many in-flight calls as the limit allows
\* computes availableSlots = 0 and goes no further.
C3_DispatchCount ==
  [][\A t \in Ticks :
       /\ EndsAlone(t) => tick[t].dispatched = Due(t)
       /\ (processCampaign(t) /\ getActiveCallCount >= campaign.maxConcurrentCalls)
            => ~Active(t)']_vars

\* the contacts of a selection result
Range(seq) == {seq[i] : i \in 1..Len(seq)}

\* c is pending, or failed with fewer attempts than the campaign's maximum
Qualifies(c) ==
  \/ contacts[c].status = "pending"
  \/ contacts[c].status = "failed" /\ contacts[c].attemptCount < callRetryAttempts

\* C16: contact selection for a campaign never returns a contact that is
\* do_not_call, in_progress or completed: every contact returned, by the
\* scheduler's selection and by ContactService's, is pending or failed with
\* attemptCount below the campaign's maximum attempts.
C16_SelectionExcludes ==
  \A limit \in 0..NumContacts :
    \A c \in Range(findContactsForCalling(limit)) \cup Range(findAvailableContactsForCampaign(limit)) :
      /\ contacts[c].status \notin {"do_not_call", "in_progress", "completed"}
      /\ Qualifies(c)

\* c sorts strictly before d: fewer attempts, or as many and an earlier last attempt
StrictlyBefore(c, d) ==
  \/ contacts[c].attemptCount < contacts[d].attemptCount
  \/ /\ contacts[c].attemptCount = contacts[d].attemptCount
     /\ contacts[c].lastAttemptDate < contacts[d].lastAttemptDate

\* the contacts the run of t has selected in this step
Selected(t) == IF tick'[t].pc = "createCall" THEN tick'[t].contacts ELSE <<>>

\* C17: the scheduler's selection returns at most limit contacts, all qualifying,
\* in order of attemptCount and then lastAttemptDate, and they are the first limit
\* qualifying contacts in that order: no qualifying contact left out sorts strictly
\* before a returned one.  With no qualifying contact the result is empty and the
\* run goes on to the completion check.
C17_SelectionOrder ==
  [][\A t \in Ticks :
       findContacts(t)
       => LET batch == Selected(t)
              Q == {c \in Contacts : Qualifies(c)}
          IN  /\ Len(batch) = Min(tick[t].availableSlots, Cardinality(Q))
              /\ Range(batch) \subseteq Q
              /\ Cardinality(Range(batch)) = Len(batch)
              /\ \A i \in 1..Len(batch), j \in 1..Len(batch) :
                   i < j => ~StrictlyBefore(batch[j], batch[i])
              /\ \A c \in Q \ Range(batch), d \in Range(batch) : ~StrictlyBefore(c, d)
              /\ Q = {} => tick'[t].pc = "checkCompletion"]_vars

C17_Witness ==
  \E t \in Ticks, c \in Contacts :
    /\ tick[t].pc = "createCall" /\ tick[t].i = 1 /\ tick[t].dispatched = 0
    /\ Len(tick[t].contacts) = 1
    /\ c < tick[t].contacts[1]
    /\ Qualifies(c)
    /\ contacts[c].attemptCount > contacts[tick[t].contacts[1]].attemptCount

\* the contacts still to be processed: pending, in_progress, or failed with
\* attempts left under the campaign's maximum
Remaining ==
  {c \in Contacts : contacts[c].status \in {"pending", "in_progress"} \/ Qualifies(c)}

\* C18: the scheduler changes the campaign's status only in the completion check
\* and only to completed, and the check decides to complete only when, as it
\* counts, no contact is pending, in_progress, or failed under the maximum.
C18_OnlyCompletionCompletes ==
  [][/\ campaign'.status # campaign.status
          => /\ campaign'.status = "completed"
             /\ \E t \in Ticks : tick[t].pc = "markCompleted" /\ ~Active(t)'
     /\ \A t \in Ticks :
          (tick[t].pc = "checkCompletion" /\ tick'[t].pc = "markCompleted")
          => Remaining = {}]_vars

C18_Witness ==
  /\ campaign.status = "completed"
  /\ \E c \in Contacts : contacts[c].attemptCount >= 1

\* C19: an active campaign all of whose contacts are completed, do_not_call, or
\* failed with attemptCount at or above the maximum is set to completed by the
\* next run that processes it: the completion check of a run that finds no
\* contact pending, in_progress or failed under the maximum decides to complete.
C19_CompletesWhenDone ==
  [][\A t \in Ticks :
       (checkCampaignCompletion(t) /\ Remaining = {}) => tick'[t].pc = "markCompleted"]_vars

\* C20: a campaign whose maxConcurrentCalls is 0 never has a call dispatched by
\* the scheduler, in any run and whatever the number of selectable contacts.
C20_ZeroNeverDispatches == campaign.maxConcurrentCalls = 0 => Len(calls) = 0

\* C21: a run that computes availableSlots = 0 for the campaign still performs
\* the completion check: zero slots skips the dispatch, not the check.
C21_ZeroSlotsStillChecks ==
  [][\A t \in Ticks :
       (processCampaign(t) /\ availableSlots(campaign, getActiveCallCount) = 0)
       => tick'[t].pc = "checkCompletion"]_vars

\* the run of t is past the placing of its current call, on the success path
AfterPlaced(t) == tick[t].pc \in {"incrementAttemptCount", "addHistoryEntry", "contactedCount"}

C23_BatchIsolation ==
  [][\A t \in Ticks :
       /\ (Active(t) /\ ~Active(t)' /\ Len(tick[t].contacts) > 0)
            => tick[t].i = Len(tick[t].contacts)
       /\ (makeCallThrows(t) /\ ~NotFound(t)) => tick'[t].pc = "caught"
       /\ (caught(t) /\ ~NotFound(t)) => contacts'[Current(t)].status = "failed"
       /\ (addFailedEntry(t) /\ ~NotFound(t))
            => contacts'[Current(t)].history = Append(contacts[Current(t)].history, "call_failed")]_vars

\* the calls dispatched for contact c so far: every initiateOutboundCall made for it
DispatchesOf(c) == {i \in 1..Len(calls) : calls[i].contact = c}

\* C28: the number of calls dispatched for one contact never exceeds the campaign's
\* callRetryAttempts (3 when the setting is absent), whether the attempts were
\* placed or failed at dispatch.
C28_AttemptsBounded ==
  \A c \in Contacts : Cardinality(DispatchesOf(c)) <= callRetryAttempts

\* a run is about to find that the campaign has no free slot
NoFreeSlot ==
  \E t \in Ticks : /\ tick[t].pc = "processCampaign"
                   /\ availableSlots(campaign, getActiveCallCount) = 0

\* C27: while the campaign stays active and every run finds a free slot, a
\* pending contact is eventually dispatched (it leaves pending only by a
\* dispatch here), whatever happens to the dispatches of the other contacts.
C27_NoStarvation ==
  \A c \in Contacts :
    (contacts[c].status = "pending" /\ campaign.status = "active")
      ~> (contacts[c].status # "pending" \/ campaign.status # "active" \/ NoFreeSlot)

\* C30: a contact that a dispatch has set in_progress and whose calls have all
\* ended eventually becomes completed or failed.
C30_LeavesInProgress ==
  \A c \in Contacts :
    (contacts[c].status = "in_progress" /\ InFlightTo(c) = {} /\ \A t \in Ticks : ~Active(t))
      ~> (contacts[c].status \in {"completed", "failed"})

====
